---- MODULE Spec2Model ----
(***************************************************************************)
(* Model of rqt_pr2_dashboard's PR2Dashboard panel                         *)
(* (src/src/rqt_pr2_dashboard/pr2_dashboard.py).                           *)
(*                                                                         *)
(* The panel holds the last DashboardState message, four kinds of          *)
(* indicator widgets (motors, battery, runstop, three breakers) and two    *)
(* click handlers that call a remote service.  Each handler of the class   *)
(* is one action; a blocking dialog and the outcome of a service call are  *)
(* inputs of the action that contains them.                                *)
(*                                                                         *)
(* The widget classes (PR2Motors, PR2Battery, PR2Runstops,                 *)
(* PR2BreakerButton) are not part of the modelled file.  A widget is       *)
(* modelled by the last state-setting call the panel made on it, together  *)
(* with that call's argument; what a widget shows before any call, and     *)
(* what reset() and set_enable() do to it, is taken from the               *)
(* specification text and marked so below.                                 *)
(***************************************************************************)
EXTENDS Integers, Sequences, FiniteSets, TLC

(***************************************************************************)
(* Program constants.                                                      *)
(***************************************************************************)
\* pr2_msgs/PowerBoardState circuit states used by the panel
STATE_STANDBY == 1
STATE_ON == 3
\* the number of PR2BreakerButton widgets built by setup()
NumBreakers == 3

CircuitStates == {STATE_STANDBY, STATE_ON}

\* Python's None; a record, so that it compares with message records
None == [none |-> TRUE]

\* QMessageBox standard buttons
Yes == "QMessageBox.Yes"
No == "QMessageBox.No"
NoAnswer == "no question asked"

\* outcomes of calling a rospy.ServiceProxy
ServiceOk == "ok"
ServiceException == "rospy.ServiceException"
NoService == "no service called"

\* a dashboard_callback comes after another one with the same message, after
\* another one with a different message, or after no dashboard_callback
NoMessage == "no message"
SameMessage == "same message"
OtherMessage == "other message"

NoException == "no exception"
TypeError == "TypeError"

\* add_arguments: the default of --motor-namespace; the panel is started without the option
DefaultMotorNamespace == "pr2_ethercat"

\* self._last_dashboard_message_time is written and never read: 0.0 at setup,
\* then whatever rospy.get_time() returned
TimeZero == "0.0"
GetTime == "rospy.get_time()"

\* QObject.tr(): no translator is installed by the panel, so Qt returns the source text
tr(sourceText) == sourceText

(***************************************************************************)
(* Messages: pr2_msgs/DashboardState as the callback reads it.             *)
(***************************************************************************)
\* pr2_msgs/PowerState, forwarded whole to the battery; one of its fields stands for it
PowerStates == [AC_present : BOOLEAN]

\* the sequences of length n over S
RECURSIVE SeqsOfLen(_, _)
SeqsOfLen(S, n) ==
    IF n = 0 THEN {<<>>}
    ELSE {Append(s, x) : s \in SeqsOfLen(S, n - 1), x \in S}

PowerBoardStates(lens) ==
    [run_stop : BOOLEAN, wireless_stop : BOOLEAN,
     circuit_state : UNION {SeqsOfLen(CircuitStates, n) : n \in lens}]

DashboardStates(lens) ==
    [motors_halted_valid : BOOLEAN, motors_halted : BOOLEAN,
     power_state_valid : BOOLEAN, power_state : PowerStates,
     power_board_state_valid : BOOLEAN, power_board_state : PowerBoardStates(lens)]

\* pr2_msgs/PowerBoardState declares int8[3] circuit_state
Messages == DashboardStates({NumBreakers})

VARIABLES
    motor_namespace,              \* self._motor_namespace
    dashboard_message,            \* self._dashboard_message
    last_dashboard_message_time,  \* self._last_dashboard_message_time
    motors,                       \* self._motors: [state, toolTip]
    breakers,                     \* self._breakers: sequence of [name, index, state, power_board_state]
    runstop,                      \* self._runstop: [state, toolTip]
    batteries,                    \* self._batteries: sequence of [state, power_state]
    runstop_calls,                \* the state-setting calls the last dashboard_callback made on self._runstop
    handler,                      \* the last handler run and what it did outside the panel
    history,                      \* the last two messages delivered: [delivered, earlier]
    ui                            \* the UI thread inside on_reset_motors: [pc, ask, decisions]

indicators == <<motors, breakers, runstop, batteries>>

vars == <<motor_namespace, dashboard_message, last_dashboard_message_time,
          motors, breakers, runstop, batteries, runstop_calls, handler, history, ui>>

(***************************************************************************)
(* Widgets at construction.                                                *)
(***************************************************************************)
\* an indicator before any state-setting call: Disabled, tool tip unset
NewIndicator == [state |-> "Disabled", toolTip |-> ""]

NewBattery == [state |-> "Disabled", power_state |-> None]

\* mutant of NewBreaker: the breakers are numbered from 1
NewBreaker_from_one(breaker_name, breaker_index) ==
    [name |-> breaker_name, index |-> breaker_index + 1,
     state |-> "Disabled", power_board_state |-> None]

\* lines 83-85: PR2BreakerButton(name, index)
NewBreaker(breaker_name, breaker_index) ==
    [name |-> breaker_name, index |-> breaker_index,
     state |-> "Disabled", power_board_state |-> None]

\* what a handler did outside the panel's fields
\* trace: the dialogs shown, the set_enable requests and the service calls, in order
NoHandler ==
    [op |-> "setup", trace |-> <<>>, answer |-> NoAnswer,
     service_result |-> NoService, raised |-> NoException, follows |-> NoMessage]

\* nothing delivered yet
NoHistory == [delivered |-> None, earlier |-> None]

\* the UI thread outside on_reset_motors
UiIdle == [pc |-> "idle", ask |-> FALSE, decisions |-> {}]

Init ==
    /\ history = NoHistory
    /\ ui = UiIdle
    /\ motor_namespace = DefaultMotorNamespace
    /\ dashboard_message = None
    /\ last_dashboard_message_time = TimeZero
    /\ motors = NewIndicator
    /\ breakers = <<NewBreaker("Left Arm", 0), NewBreaker("Base", 1), NewBreaker("Right Arm", 2)>>
    /\ runstop = NewIndicator
    /\ batteries = <<NewBattery>>
    /\ runstop_calls = <<>>
    /\ handler = NoHandler

(***************************************************************************)
(* dashboard_callback: the status mapper.                                  *)
(***************************************************************************)
\* mutant of motors_update: the indicator is set from self._dashboard_message as it
\* was before line 102 stored msg, so it lags one message behind
motors_update_lagging(m, msg) ==
    IF dashboard_message = None THEN m
    ELSE IF dashboard_message.motors_halted_valid
    THEN IF ~dashboard_message.motors_halted
         THEN [state |-> "Ok", toolTip |-> tr("Motors: Running")]
         ELSE [state |-> "Error", toolTip |-> tr("Motors: Halted")]
    ELSE [state |-> "Stale", toolTip |-> tr("Motors: Stale")]

\* mutant of motors_update: the else branch is missing
motors_update_no_else(m, msg) ==
    IF msg.motors_halted_valid
    THEN IF ~msg.motors_halted
         THEN [state |-> "Ok", toolTip |-> tr("Motors: Running")]
         ELSE [state |-> "Error", toolTip |-> tr("Motors: Halted")]
    ELSE m

\* mutant of motors_update: motors_halted is tested before motors_halted_valid
motors_update_halted_first(m, msg) ==
    IF msg.motors_halted
    THEN [state |-> "Error", toolTip |-> tr("Motors: Halted")]
    ELSE IF msg.motors_halted_valid
         THEN [state |-> "Ok", toolTip |-> tr("Motors: Running")]
         ELSE [state |-> "Stale", toolTip |-> tr("Motors: Stale")]

\* mutant of motors_update: the not of line 106 is missing
motors_update_inverted(m, msg) ==
    IF msg.motors_halted_valid
    THEN IF msg.motors_halted
         THEN [state |-> "Ok", toolTip |-> tr("Motors: Running")]
         ELSE [state |-> "Error", toolTip |-> tr("Motors: Halted")]
    ELSE [state |-> "Stale", toolTip |-> tr("Motors: Stale")]

\* lines 105-114: the motors indicator
motors_update(m, msg) ==
    IF msg.motors_halted_valid
    THEN IF ~msg.motors_halted
         THEN [state |-> "Ok", toolTip |-> tr("Motors: Running")]
         ELSE [state |-> "Error", toolTip |-> tr("Motors: Halted")]
    ELSE [state |-> "Stale", toolTip |-> tr("Motors: Stale")]

\* PR2Battery.set_power_state / set_stale: the battery shows what it was last given
set_power_state(battery, power_state) ==
    [state |-> "PowerState", power_state |-> power_state]

battery_set_stale(battery) ==
    [state |-> "Stale", power_state |-> None]

\* mutant of batteries_update: line 116 tests power_board_state_valid
batteries_update_by_board(bs, msg) ==
    IF msg.power_board_state_valid
    THEN [bs EXCEPT ![1] = set_power_state(bs[1], msg.power_state)]
    ELSE [bs EXCEPT ![1] = battery_set_stale(bs[1])]

\* lines 116-119: the battery indicator
batteries_update(bs, msg) ==
    IF msg.power_state_valid
    THEN [bs EXCEPT ![1] = set_power_state(bs[1], msg.power_state)]
    ELSE [bs EXCEPT ![1] = battery_set_stale(bs[1])]

\* PR2BreakerButton.set_power_board_state_msg: the breaker keeps the board
\* state, from which it renders circuit_state[index]
set_power_board_state_msg(breaker, power_board_state) ==
    [breaker EXCEPT !.state = "PowerBoardState", !.power_board_state = power_board_state]

\* PR2BreakerButton.reset: back to the default state
breaker_reset(breaker) ==
    [breaker EXCEPT !.state = "Disabled", !.power_board_state = None]

\* mutant of breakers_update: line 133 is missing
breakers_update_no_reset(bs, msg) ==
    IF msg.power_board_state_valid
    THEN [i \in DOMAIN bs |-> set_power_board_state_msg(bs[i], msg.power_board_state)]
    ELSE bs

\* lines 122 and 133: the list comprehensions over self._breakers
breakers_update(bs, msg) ==
    IF msg.power_board_state_valid
    THEN [i \in DOMAIN bs |-> set_power_board_state_msg(bs[i], msg.power_board_state)]
    ELSE [i \in DOMAIN bs |-> breaker_reset(bs[i])]

\* mutant of runstop_assignments: line 129 is an elif, the chain is exclusive
runstop_assignments_exclusive(msg) ==
    IF msg.power_board_state_valid
    THEN IF msg.power_board_state.run_stop
         THEN <<[state |-> "Ok",
                 toolTip |-> tr("Physical Runstop: OK\nWireless Runstop: OK")]>>
         ELSE IF msg.power_board_state.wireless_stop
         THEN <<[state |-> "PhysicalEngaged",
                 toolTip |-> tr("Physical Runstop: Pressed\nWireless Runstop: OK")]>>
         ELSE <<[state |-> "WirelessEngaged",
                 toolTip |-> tr("Physical Runstop: Unknown\nWireless Runstop: Pressed")]>>
    ELSE <<[state |-> "Stale",
            toolTip |-> tr("Physical Runstop: Stale\nWireless Runstop: Stale")]>>

\* lines 123-131 and 134-135: the state-setting calls made on self._runstop, in order
runstop_assignments(msg) ==
    IF msg.power_board_state_valid
    THEN (IF msg.power_board_state.run_stop
          THEN <<[state |-> "Ok",
                  toolTip |-> tr("Physical Runstop: OK\nWireless Runstop: OK")]>>
          ELSE IF msg.power_board_state.wireless_stop
          THEN <<[state |-> "PhysicalEngaged",
                  toolTip |-> tr("Physical Runstop: Pressed\nWireless Runstop: OK")]>>
          ELSE <<>>)
         \o
         (IF ~msg.power_board_state.wireless_stop
          THEN <<[state |-> "WirelessEngaged",
                  toolTip |-> tr("Physical Runstop: Unknown\nWireless Runstop: Pressed")]>>
          ELSE <<>>)
    ELSE <<[state |-> "Stale",
            toolTip |-> tr("Physical Runstop: Stale\nWireless Runstop: Stale")]>>

\* the runstop indicator after those calls: the last one made, if any
runstop_update(r, msg) ==
    LET calls == runstop_assignments(msg)
    IN  IF calls = <<>> THEN r ELSE calls[Len(calls)]

\* mutant of callback_run: a message with a valid flag false raises an error dialog
callback_run_alerts(h, dm, msg) ==
    [op |-> "dashboard_callback",
     trace |-> IF msg.motors_halted_valid /\ msg.power_state_valid
                  /\ msg.power_board_state_valid
               THEN <<>>
               ELSE <<[call |-> "QMessageBox.critical", on |-> "Motors"]>>,
     answer |-> NoAnswer,
     service_result |-> NoService, raised |-> NoException,
     follows |-> IF h.op /= "dashboard_callback" THEN NoMessage
                 ELSE IF dm = msg THEN SameMessage ELSE OtherMessage]

\* dashboard_callback calls no service and shows no dialog
callback_run(h, dm, msg) ==
    [op |-> "dashboard_callback", trace |-> <<>>, answer |-> NoAnswer,
     service_result |-> NoService, raised |-> NoException,
     follows |-> IF h.op /= "dashboard_callback" THEN NoMessage
                 ELSE IF dm = msg THEN SameMessage ELSE OtherMessage]

\* mutant of store_message: line 102 is moved into the branch of line 121
store_message_if_valid(dm, msg) ==
    IF msg.power_board_state_valid THEN msg ELSE dm

\* line 102: self._dashboard_message = msg
store_message(dm, msg) == msg

dashboard_callback(msg) ==
    /\ dashboard_message' = store_message(dashboard_message, msg)
    /\ last_dashboard_message_time' = GetTime
    /\ motors' = motors_update(motors, msg)
    /\ batteries' = batteries_update(batteries, msg)
    /\ breakers' = breakers_update(breakers, msg)
    /\ runstop' = runstop_update(runstop, msg)
    /\ runstop_calls' = runstop_assignments(msg)
    /\ handler' = callback_run(handler, dashboard_message, msg)
    /\ UNCHANGED motor_namespace

(***************************************************************************)
(* on_reset_motors and on_halt_motors: the command dispatcher.             *)
(***************************************************************************)
\* one thing a handler does outside the panel's fields
Event(call, on) == [call |-> call, on |-> on]

\* mutant of reduce_and: the fold keeps its first argument (lambda x, y: x)
reduce_first(bools) == bools[1]

\* reduce(lambda x, y: x and y, bools) for a non-empty list: a left fold
\* that starts from the first element (reduce is Python 2's builtin)
RECURSIVE reduce_and(_)
reduce_and(bools) ==
    IF Len(bools) = 1 THEN bools[1]
    ELSE reduce_and(SubSeq(bools, 1, Len(bools) - 1)) /\ bools[Len(bools)]

\* line 140: [state == PowerBoardState.STATE_ON for state in circuit_state]
breakers_on(circuit_state) ==
    [i \in DOMAIN circuit_state |-> circuit_state[i] = STATE_ON]

\* line 139: the guard of the breaker check
board_state_known(dm) ==
    dm /= None /\ dm.power_board_state_valid

\* line 140: reduce() of an empty list without an initial value raises TypeError
reduce_raises(dm) ==
    board_state_known(dm) /\ Len(dm.power_board_state.circuit_state) = 0

\* mutant of question_needed: all_breakers_enabled starts False and only a
\* known board state with every breaker ON sets it
question_needed_unless_on(dm) ==
    ~(board_state_known(dm) /\ reduce_and(breakers_on(dm.power_board_state.circuit_state)))

\* lines 139-141: whether QMessageBox.question is shown
question_needed(dm) ==
    /\ board_state_known(dm)
    /\ ~reduce_and(breakers_on(dm.power_board_state.circuit_state))

\* line 142: the question is answered Yes
enable_confirmed(dm, answer) ==
    question_needed(dm) /\ answer = Yes

\* PR2BreakerButton.set_enable: a request to the widget that leaves what it shows alone
set_enable(breaker) == breaker

\* mutant of breakers_enable: the comprehension calls reset() instead of set_enable()
breakers_enable_resets(bs, dm, answer) ==
    IF enable_confirmed(dm, answer)
    THEN [i \in DOMAIN bs |-> breaker_reset(bs[i])]
    ELSE bs

\* line 143: [breaker.set_enable() for breaker in self._breakers]
breakers_enable(bs, dm, answer) ==
    IF enable_confirmed(dm, answer)
    THEN [i \in DOMAIN bs |-> set_enable(bs[i])]
    ELSE bs

\* mutant of halt_motors_service: the name is spelled out with the default namespace
halt_motors_service_default(namespace) == "pr2_ethercat/halt_motors"

\* lines 144 and 151: the service names
reset_motors_service(namespace) == namespace \o "/reset_motors"
halt_motors_service(namespace) == namespace \o "/halt_motors"

\* mutant of catches: the except clause names an exception the call does not raise
catches_nothing(result) == FALSE

\* lines 147 and 154: except rospy.ServiceException
catches(result) == result = ServiceException

\* what leaves the handler after the try statement
service_raised(result) ==
    IF result = ServiceOk \/ catches(result) THEN NoException ELSE result

\* mutant of reset_motors_call: the except clause calls reset() once more
reset_motors_call_retries(bs, namespace, result) ==
    <<Event("service", reset_motors_service(namespace))>>
    \o (IF catches(result)
        THEN <<Event("service", reset_motors_service(namespace)),
               Event("QMessageBox.critical", bs[1].name)>>
        ELSE <<>>)

\* lines 145-148: reset() and, when it fails, QMessageBox.critical on self._breakers[0]
reset_motors_call(bs, namespace, result) ==
    <<Event("service", reset_motors_service(namespace))>>
    \o (IF catches(result) THEN <<Event("QMessageBox.critical", bs[1].name)>> ELSE <<>>)

\* lines 139-148: what on_reset_motors does outside the panel's fields
reset_motors_run(dm, bs, namespace, answer, result) ==
    IF reduce_raises(dm)
    THEN [op |-> "on_reset_motors", trace |-> <<>>, answer |-> NoAnswer,
          service_result |-> NoService, raised |-> TypeError, follows |-> NoMessage]
    ELSE [op |-> "on_reset_motors",
          trace |-> (IF question_needed(dm)
                     THEN <<Event("QMessageBox.question", bs[1].name)>> ELSE <<>>)
                    \o (IF enable_confirmed(dm, answer)
                        THEN [i \in DOMAIN bs |-> Event("set_enable", bs[i].name)]
                        ELSE <<>>)
                    \o reset_motors_call(bs, namespace, result),
          answer |-> IF question_needed(dm) THEN answer ELSE NoAnswer,
          service_result |-> result,
          raised |-> service_raised(result),
          follows |-> NoMessage]

\* lines 151-155: what on_halt_motors does outside the panel's fields;
\* QMessageBox.critical is shown on self._motors
halt_motors_run(namespace, result) ==
    [op |-> "on_halt_motors",
     trace |-> <<Event("service", halt_motors_service(namespace))>>
               \o (IF catches(result) THEN <<Event("QMessageBox.critical", "Motors")>>
                   ELSE <<>>),
     answer |-> NoAnswer,
     service_result |-> result,
     raised |-> service_raised(result),
     follows |-> NoMessage]

on_reset_motors(answer, result) ==
    /\ handler' = reset_motors_run(dashboard_message, breakers, motor_namespace, answer, result)
    /\ breakers' = IF reduce_raises(dashboard_message) THEN breakers
                   ELSE breakers_enable(breakers, dashboard_message, answer)
    /\ UNCHANGED <<motor_namespace, dashboard_message, last_dashboard_message_time,
                   motors, runstop, batteries, runstop_calls>>

on_halt_motors(result) ==
    /\ handler' = halt_motors_run(motor_namespace, result)
    /\ UNCHANGED <<motor_namespace, dashboard_message, last_dashboard_message_time,
                   motors, breakers, runstop, batteries, runstop_calls>>

(***************************************************************************)
(* The panel: messages and clicks arrive one at a time, in any order.      *)
(***************************************************************************)
Next ==
    \/ \E msg \in Messages : dashboard_callback(msg) /\ UNCHANGED <<history, ui>>
    \/ \E answer \in {Yes, No}, result \in {ServiceOk, ServiceException} :
           on_reset_motors(answer, result) /\ UNCHANGED <<history, ui>>
    \/ \E result \in {ServiceOk, ServiceException} :
           on_halt_motors(result) /\ UNCHANGED <<history, ui>>

Spec == Init /\ [][Next]_vars

(***************************************************************************)
(* Properties of the status mapper.                                        *)
(***************************************************************************)
AfterCallback == handler.op = "dashboard_callback"

RunstopOk == [state |-> "Ok", toolTip |-> "Physical Runstop: OK\nWireless Runstop: OK"]
RunstopPhysical ==
    [state |-> "PhysicalEngaged", toolTip |-> "Physical Runstop: Pressed\nWireless Runstop: OK"]
RunstopWireless ==
    [state |-> "WirelessEngaged", toolTip |-> "Physical Runstop: Unknown\nWireless Runstop: Pressed"]
RunstopStale ==
    [state |-> "Stale", toolTip |-> "Physical Runstop: Stale\nWireless Runstop: Stale"]

\* C1: with a valid power board state, after dashboard_callback the runstop
\* indicator follows the sequential-overwrite table: (run_stop, wireless_stop)
\* = (T,T) gives Ok, (F,T) physical engaged, (T,F) wireless engaged after an
\* Ok assignment that is overwritten, (F,F) wireless engaged; the indicator
\* is assigned at least once in each case.
C1_RunstopTable ==
    (AfterCallback /\ dashboard_message.power_board_state_valid) =>
        LET rs == dashboard_message.power_board_state.run_stop
            ws == dashboard_message.power_board_state.wireless_stop
        IN  /\ (rs /\ ws) => runstop = RunstopOk
            /\ (~rs /\ ws) => runstop = RunstopPhysical
            /\ (rs /\ ~ws) => /\ runstop = RunstopWireless
                              /\ runstop_calls = <<RunstopOk, RunstopWireless>>
            /\ (~rs /\ ~ws) => runstop = RunstopWireless
            /\ Len(runstop_calls) >= 1

\* C1 witness: run_stop true and wireless_stop false, the Ok assignment overwritten
C1_Witness ==
    /\ AfterCallback
    /\ dashboard_message.power_board_state_valid
    /\ dashboard_message.power_board_state.run_stop
    /\ ~dashboard_message.power_board_state.wireless_stop
    /\ Len(runstop_calls) = 2
    /\ runstop.state = "WirelessEngaged"

\* the panel's indicators after one dashboard_callback(msg) on a panel fresh from setup
FreshPanelAfter(msg) ==
    <<motors_update(NewIndicator, msg),
      breakers_update(<<NewBreaker("Left Arm", 0), NewBreaker("Base", 1),
                        NewBreaker("Right Arm", 2)>>, msg),
      runstop_update(NewIndicator, msg),
      batteries_update(<<NewBattery>>, msg)>>

\* C2: last message wins: after a dashboard_callback, whatever ran before it,
\* the indicators are what the last message alone produces on a fresh panel.
C2_LastMessageWins ==
    AfterCallback => indicators = FreshPanelAfter(dashboard_message)

\* C2 witness: a dashboard_callback right after one with a different message,
\* whose motors, runstop and battery had been set differently from the defaults
C2_Witness ==
    /\ AfterCallback
    /\ handler.follows = OtherMessage
    /\ motors.state = "Stale"
    /\ runstop.state = "PhysicalEngaged"

\* C3: motors_halted_valid false gives a Stale motors indicator, whatever
\* motors_halted says.
C3_MotorsStale ==
    (AfterCallback /\ ~dashboard_message.motors_halted_valid) =>
        motors = [state |-> "Stale", toolTip |-> "Motors: Stale"]

\* C3 witness: an invalid motors section that says halted, after another message
C3_Witness ==
    /\ AfterCallback
    /\ handler.follows = OtherMessage
    /\ ~dashboard_message.motors_halted_valid
    /\ dashboard_message.motors_halted
    /\ motors.state = "Stale"

\* C4: motors_halted_valid true gives Error / "Motors: Halted" when halted and
\* Ok / "Motors: Running" when not.
C4_MotorsValid ==
    (AfterCallback /\ dashboard_message.motors_halted_valid) =>
        motors = IF dashboard_message.motors_halted
                 THEN [state |-> "Error", toolTip |-> "Motors: Halted"]
                 ELSE [state |-> "Ok", toolTip |-> "Motors: Running"]

\* C4 witness: a valid, halted motors section
C4_Witness ==
    /\ AfterCallback
    /\ dashboard_message.motors_halted_valid
    /\ dashboard_message.motors_halted
    /\ motors.state = "Error"

\* C5: power_board_state_valid false resets all three breakers to their
\* default and makes the runstop Stale, whatever the board state carries;
\* true hands the message's power_board_state to each of the three breakers.
C5_PowerBoard ==
    AfterCallback =>
        IF dashboard_message.power_board_state_valid
        THEN /\ Len(breakers) = NumBreakers
             /\ \A i \in 1..NumBreakers :
                    /\ breakers[i].state = "PowerBoardState"
                    /\ breakers[i].power_board_state = dashboard_message.power_board_state
        ELSE /\ Len(breakers) = NumBreakers
             /\ \A i \in 1..NumBreakers :
                    breakers[i] = NewBreaker(breakers[i].name, breakers[i].index)
             /\ runstop = RunstopStale

\* C5 witness: an invalid board state that carries run_stop and a breaker ON,
\* after a message that had set the breakers
C5_Witness ==
    /\ AfterCallback
    /\ handler.follows = OtherMessage
    /\ ~dashboard_message.power_board_state_valid
    /\ dashboard_message.power_board_state.run_stop
    /\ dashboard_message.power_board_state.circuit_state[1] = STATE_ON
    /\ breakers[3].state = "Disabled"
    /\ runstop.state = "Stale"

\* C6: power_state_valid false gives a Stale battery, true gives the battery
\* exactly the message's power_state; nothing else in the message matters.
C6_Battery ==
    AfterCallback =>
        batteries = <<IF dashboard_message.power_state_valid
                      THEN [state |-> "PowerState",
                            power_state |-> dashboard_message.power_state]
                      ELSE [state |-> "Stale", power_state |-> None]>>

\* C6 witness: a valid power state in a message whose other sections are invalid
C6_Witness ==
    /\ AfterCallback
    /\ dashboard_message.power_state_valid
    /\ ~dashboard_message.motors_halted_valid
    /\ ~dashboard_message.power_board_state_valid
    /\ batteries[1].power_state = dashboard_message.power_state

(***************************************************************************)
(* Properties of the command dispatcher.                                   *)
(***************************************************************************)
AfterReset == handler.op = "on_reset_motors"
AfterHalt == handler.op = "on_halt_motors"

\* the positions of the trace at which `call` was made
Calls(trace, call) == {i \in DOMAIN trace : trace[i].call = call}

\* the last-received status exists, its board section is valid and some breaker is not ON
SomeBreakerNotOn ==
    /\ dashboard_message /= None
    /\ dashboard_message.power_board_state_valid
    /\ \E i \in DOMAIN dashboard_message.power_board_state.circuit_state :
           dashboard_message.power_board_state.circuit_state[i] /= STATE_ON

\* C7: on_reset_motors asks the question exactly when a status exists, its
\* board section is valid and not every circuit state is ON; it asks every
\* breaker to enable exactly when the question was asked and answered Yes;
\* and in each case it then calls the reset_motors service, once.
C7_ResetPrompt ==
    AfterReset =>
        LET asked == Calls(handler.trace, "QMessageBox.question")
            enabled == Calls(handler.trace, "set_enable")
            called == Calls(handler.trace, "service")
        IN  /\ Cardinality(asked) = (IF SomeBreakerNotOn THEN 1 ELSE 0)
            /\ Cardinality(enabled) =
                   (IF asked /= {} /\ handler.answer = Yes THEN NumBreakers ELSE 0)
            /\ \A i \in enabled : \E j \in 1..NumBreakers :
                   /\ handler.trace[i].on = breakers[j].name
                   /\ i = Cardinality(asked) + j
            /\ Cardinality(called) = 1
            /\ \A i \in called :
                   /\ handler.trace[i].on = motor_namespace \o "/reset_motors"
                   /\ \A j \in asked \cup enabled : j < i

\* C7 witness: the question was asked and answered No, and the service was called
C7_Witness ==
    /\ AfterReset
    /\ Calls(handler.trace, "QMessageBox.question") /= {}
    /\ handler.answer = No
    /\ Calls(handler.trace, "service") /= {}

\* C8: on_reset_motors on a panel that has received no message asks no
\* question, touches no breaker and calls the reset_motors service directly.
C8_ResetFreshPanel ==
    (AfterReset /\ dashboard_message = None) =>
        /\ Calls(handler.trace, "QMessageBox.question") = {}
        /\ Calls(handler.trace, "set_enable") = {}
        /\ handler.answer = NoAnswer
        /\ handler.trace[1] = Event("service", motor_namespace \o "/reset_motors")
        /\ breakers = <<NewBreaker("Left Arm", 0), NewBreaker("Base", 1),
                        NewBreaker("Right Arm", 2)>>

\* C8 witness: a reset click on the fresh panel, the service answering
C8_Witness ==
    /\ AfterReset
    /\ dashboard_message = None
    /\ handler.service_result = ServiceOk
    /\ Len(handler.trace) = 1

\* C9: when the service call of on_reset_motors or on_halt_motors fails, one
\* error dialog is shown, nothing is raised out of the handler and no
\* indicator changes.
C9_RemoteFailure ==
    [][(handler'.op \in {"on_reset_motors", "on_halt_motors"}
        /\ handler'.service_result = ServiceException)
       => /\ Cardinality(Calls(handler'.trace, "QMessageBox.critical")) = 1
          /\ handler'.trace[Len(handler'.trace)].call = "QMessageBox.critical"
          /\ handler'.raised = NoException
          /\ indicators' = indicators]_vars

\* C9 witness: a failed reset after the question was answered Yes, and a
\* further click accepted
C9_Witness ==
    /\ AfterReset
    /\ handler.service_result = ServiceException
    /\ handler.answer = Yes
    /\ Cardinality(Calls(handler.trace, "QMessageBox.critical")) = 1
    /\ ENABLED (\E result \in {ServiceOk, ServiceException} : on_halt_motors(result))

\* C10: no run of on_reset_motors or on_halt_motors changes the state of the
\* motors, battery, runstop or breaker indicators.
C10_HandlersLeaveIndicators ==
    [][handler'.op \in {"on_reset_motors", "on_halt_motors"} =>
           UNCHANGED <<motors, batteries, runstop, breakers>>]_vars

\* C10 witness: the breakers show a board state and were asked to enable
C10_Witness ==
    /\ AfterReset
    /\ handler.answer = Yes
    /\ Calls(handler.trace, "set_enable") /= {}
    /\ breakers[1].state = "PowerBoardState"

(***************************************************************************)
(* Further properties of the panel with one handler at a time.             *)
(***************************************************************************)
\* C11: delivering the same message twice in a row is idempotent: the second
\* dashboard_callback leaves every indicator state and tool tip as the first
\* left them.
C11_Idempotent ==
    [][(/\ handler.op = "dashboard_callback"
        /\ handler'.op = "dashboard_callback"
        /\ dashboard_message' = dashboard_message)
       => /\ indicators' = indicators
          /\ runstop_calls' = runstop_calls]_vars

\* C11 witness: the same message delivered twice in a row, the runstop
\* assigned twice by each delivery
C11_Witness ==
    /\ AfterCallback
    /\ handler.follows = SameMessage
    /\ Len(runstop_calls) = 2
    /\ motors.state = "Error"

\* C12: a run of on_reset_motors makes one call, of reset_motors, and a run of
\* on_halt_motors one call, of halt_motors, whether the call fails or not;
\* nothing but a click makes a call.
C12_NoRetry ==
    LET called == Calls(handler.trace, "service")
    IN  /\ AfterReset =>
               /\ Cardinality(called) = 1
               /\ \A i \in called : handler.trace[i].on = motor_namespace \o "/reset_motors"
        /\ AfterHalt =>
               /\ Cardinality(called) = 1
               /\ \A i \in called : handler.trace[i].on = motor_namespace \o "/halt_motors"
        /\ ~(AfterReset \/ AfterHalt) => called = {}

\* C12 witness: a reset whose call failed, after the question was answered Yes
C12_Witness ==
    /\ AfterReset
    /\ handler.service_result = ServiceException
    /\ handler.answer = Yes
    /\ Cardinality(Calls(handler.trace, "service")) = 1

\* C13: dashboard_callback calls no service and shows no question or error
\* dialog, whatever the valid flags of the message.
C13_MapperNoSideEffects ==
    [][handler'.op = "dashboard_callback" =>
           /\ handler'.trace = <<>>
           /\ handler'.service_result = NoService
           /\ handler'.answer = NoAnswer
           /\ handler'.raised = NoException
           /\ motor_namespace' = motor_namespace]_vars

\* C13 witness: a message with all three valid flags false was mapped
C13_Witness ==
    /\ AfterCallback
    /\ ~dashboard_message.motors_halted_valid
    /\ ~dashboard_message.power_state_valid
    /\ ~dashboard_message.power_board_state_valid
    /\ motors.state = "Stale"
    /\ handler.trace = <<>>

\* C15: the panel always has three breaker indicators, 'Left Arm', 'Base' and
\* 'Right Arm', bound to circuit_state indices 0, 1 and 2 in that order.
C15_ThreeBreakers ==
    /\ Len(breakers) = 3
    /\ <<breakers[1].name, breakers[2].name, breakers[3].name>>
           = <<"Left Arm", "Base", "Right Arm">>
    /\ <<breakers[1].index, breakers[2].index, breakers[3].index>> = <<0, 1, 2>>

\* C15 witness: after a board state was mapped and the breakers were asked to enable
C15_Witness ==
    /\ AfterReset
    /\ Calls(handler.trace, "set_enable") /= {}
    /\ breakers[3].state = "PowerBoardState"
    /\ breakers[3].name = "Right Arm"

(***************************************************************************)
(* The panel started with or without --motor-namespace.                    *)
(***************************************************************************)
\* lines 69-72: args.motor_namespace is the default or the value given on the command line
MotorNamespaces == {DefaultMotorNamespace, "my_ethercat"}

\* the messages whose motors and power sections are invalid: the handlers
\* read only the power board section
BoardMessages ==
    {msg \in Messages : /\ ~msg.motors_halted_valid /\ ~msg.motors_halted
                        /\ ~msg.power_state_valid /\ ~msg.power_state.AC_present}

InitNamespace ==
    /\ history = NoHistory
    /\ ui = UiIdle
    /\ motor_namespace \in MotorNamespaces
    /\ dashboard_message = None
    /\ last_dashboard_message_time = TimeZero
    /\ motors = NewIndicator
    /\ breakers = <<NewBreaker("Left Arm", 0), NewBreaker("Base", 1), NewBreaker("Right Arm", 2)>>
    /\ runstop = NewIndicator
    /\ batteries = <<NewBattery>>
    /\ runstop_calls = <<>>
    /\ handler = NoHandler

NextNamespace ==
    \/ \E msg \in BoardMessages : dashboard_callback(msg) /\ UNCHANGED <<history, ui>>
    \/ \E answer \in {Yes, No}, result \in {ServiceOk, ServiceException} :
           on_reset_motors(answer, result) /\ UNCHANGED <<history, ui>>
    \/ \E result \in {ServiceOk, ServiceException} :
           on_halt_motors(result) /\ UNCHANGED <<history, ui>>

SpecNamespace == InitNamespace /\ [][NextNamespace]_vars

\* C14: on_halt_motors calls only '<prefix>/halt_motors' and on_reset_motors
\* only '<prefix>/reset_motors', the prefix being the motor namespace set at
\* setup, which never changes; on_halt_motors asks no question and does the
\* same whatever the last-received status is.
C14_Endpoints ==
    /\ [](/\ motor_namespace \in MotorNamespaces
          /\ AfterHalt =>
                 /\ handler.trace[1] = Event("service", motor_namespace \o "/halt_motors")
                 /\ Calls(handler.trace, "service") = {1}
                 /\ Calls(handler.trace, "QMessageBox.question") = {}
                 /\ Calls(handler.trace, "set_enable") = {}
                 /\ handler.answer = NoAnswer
                 /\ Len(handler.trace) =
                        (IF handler.service_result = ServiceException THEN 2 ELSE 1)
          /\ AfterReset =>
                 \A i \in Calls(handler.trace, "service") :
                     handler.trace[i].on = motor_namespace \o "/reset_motors")
    /\ [][motor_namespace' = motor_namespace]_vars

\* C14 witness: a halt on a panel started with another namespace, the last
\* status having a valid board section with a breaker not ON
C14_Witness ==
    /\ AfterHalt
    /\ motor_namespace = "my_ethercat"
    /\ SomeBreakerNotOn
    /\ handler.trace[1].on = "my_ethercat/halt_motors"

(***************************************************************************)
(* The panel with the last two delivered messages remembered.              *)
(***************************************************************************)
NextHistory ==
    \/ \E msg \in BoardMessages :
           /\ dashboard_callback(msg)
           /\ history' = [delivered |-> msg, earlier |-> history.delivered]
           /\ UNCHANGED ui
    \/ \E answer \in {Yes, No}, result \in {ServiceOk, ServiceException} :
           on_reset_motors(answer, result) /\ UNCHANGED <<history, ui>>
    \/ \E result \in {ServiceOk, ServiceException} :
           on_halt_motors(result) /\ UNCHANGED <<history, ui>>

SpecHistory == Init /\ [][NextHistory]_vars

\* the question a message calls for, taken alone
PromptFor(msg) ==
    /\ msg /= None
    /\ msg.power_board_state_valid
    /\ \E i \in DOMAIN msg.power_board_state.circuit_state :
           msg.power_board_state.circuit_state[i] /= STATE_ON

\* C16: on_reset_motors decides whether to ask from the message delivered
\* last and from no earlier one: the stored status is always the last
\* delivered message, and the question is asked exactly when that message,
\* taken alone, calls for it.
C16_LastMessageDecides ==
    /\ dashboard_message = history.delivered
    /\ AfterReset =>
           (Calls(handler.trace, "QMessageBox.question") /= {}
                <=> PromptFor(history.delivered))

\* C16 witness: a valid message with a breaker not ON, then a message with an
\* invalid board section, then a reset that asked nothing
C16_Witness ==
    /\ AfterReset
    /\ PromptFor(history.earlier)
    /\ ~history.delivered.power_board_state_valid
    /\ Calls(handler.trace, "QMessageBox.question") = {}

(***************************************************************************)
(* The panel with its two threads.  rospy runs dashboard_callback on the   *)
(* subscriber's thread and Qt runs on_reset_motors on the UI thread; the   *)
(* file takes no lock.  on_reset_motors reads self._dashboard_message      *)
(* three times (twice on line 139, once on line 140) and the callback's    *)
(* store of line 102 can fall between any two of the reads.  The callback  *)
(* shares nothing else with the handler, so it is kept as one step.        *)
(***************************************************************************)
\* lines 141-148 once the decision to ask is made
reset_motors_finish(ask, bs, namespace, answer, result) ==
    [op |-> "on_reset_motors",
     trace |-> (IF ask THEN <<Event("QMessageBox.question", bs[1].name)>> ELSE <<>>)
               \o (IF ask /\ answer = Yes
                   THEN [i \in DOMAIN bs |-> Event("set_enable", bs[i].name)]
                   ELSE <<>>)
               \o reset_motors_call(bs, namespace, result),
     answer |-> IF ask THEN answer ELSE NoAnswer,
     service_result |-> result,
     raised |-> service_raised(result),
     follows |-> NoMessage]

\* line 102 on the subscriber's thread, while the UI thread is anywhere;
\* decisions collects what each status held during a run of on_reset_motors
\* calls for, taken alone
thread_callback(msg) ==
    /\ dashboard_callback(msg)
    /\ ui' = [ui EXCEPT !.decisions =
                  IF ui.pc = "idle" THEN {} ELSE @ \cup {question_needed(msg)}]
    /\ UNCHANGED history

\* line 139, first operand: self._dashboard_message is not None
reset_line139_exists ==
    /\ ui.pc = "idle"
    /\ ui' = [pc |-> IF dashboard_message /= None THEN "line139_valid" ELSE "line141",
              ask |-> FALSE,
              decisions |-> {question_needed(dashboard_message)}]
    /\ UNCHANGED <<motor_namespace, dashboard_message, last_dashboard_message_time,
                   motors, breakers, runstop, batteries, runstop_calls, handler, history>>

\* line 139, second operand: self._dashboard_message.power_board_state_valid
reset_line139_valid ==
    /\ ui.pc = "line139_valid"
    /\ ui' = [ui EXCEPT !.pc = IF dashboard_message.power_board_state_valid
                               THEN "line140" ELSE "line141"]
    /\ UNCHANGED <<motor_namespace, dashboard_message, last_dashboard_message_time,
                   motors, breakers, runstop, batteries, runstop_calls, handler, history>>

\* line 140: all_breakers_enabled from self._dashboard_message.power_board_state.circuit_state
reset_line140 ==
    /\ ui.pc = "line140"
    /\ ui' = [ui EXCEPT !.pc = "line141",
                        !.ask = ~reduce_and(breakers_on(
                                    dashboard_message.power_board_state.circuit_state))]
    /\ UNCHANGED <<motor_namespace, dashboard_message, last_dashboard_message_time,
                   motors, breakers, runstop, batteries, runstop_calls, handler, history>>

\* lines 141-148: the question, the set_enable requests, the service call
reset_line141(answer, result) ==
    /\ ui.pc = "line141"
    /\ handler' = reset_motors_finish(ui.ask, breakers, motor_namespace, answer, result)
    /\ breakers' = IF ui.ask /\ answer = Yes
                   THEN [i \in DOMAIN breakers |-> set_enable(breakers[i])]
                   ELSE breakers
    /\ ui' = UiIdle
    /\ UNCHANGED <<motor_namespace, dashboard_message, last_dashboard_message_time,
                   motors, runstop, batteries, runstop_calls, history>>

\* a click on halt, when the UI thread is free
thread_halt(result) ==
    /\ ui.pc = "idle"
    /\ on_halt_motors(result)
    /\ UNCHANGED <<history, ui>>

NextThreads ==
    \/ \E msg \in BoardMessages : thread_callback(msg)
    \/ reset_line139_exists
    \/ reset_line139_valid
    \/ reset_line140
    \/ \E answer \in {Yes, No}, result \in {ServiceOk, ServiceException} :
           reset_line141(answer, result)
    \/ \E result \in {ServiceOk, ServiceException} : thread_halt(result)

SpecThreads == Init /\ [][NextThreads]_vars

\* C17: with dashboard_callback and on_reset_motors interleaved, the decision
\* to ask, once made, is the one that some single status held during the run
\* calls for.
C17_OneMessageDecides ==
    ui.pc = "line141" => ui.ask \in ui.decisions

(***************************************************************************)
(* The panel given board states whose circuit_state is not three long.     *)
(* dashboard_callback takes whatever object it is called with.             *)
(***************************************************************************)
\* circuit_state of every length up to the number of breakers, the empty one included
AnyLengthMessages ==
    {msg \in DashboardStates(0..NumBreakers) :
         /\ ~msg.motors_halted_valid /\ ~msg.motors_halted
         /\ ~msg.power_state_valid /\ ~msg.power_state.AC_present}

NextAnyLength ==
    \/ \E msg \in AnyLengthMessages : dashboard_callback(msg) /\ UNCHANGED <<history, ui>>
    \/ \E answer \in {Yes, No}, result \in {ServiceOk, ServiceException} :
           on_reset_motors(answer, result) /\ UNCHANGED <<history, ui>>
    \/ \E result \in {ServiceOk, ServiceException} :
           on_halt_motors(result) /\ UNCHANGED <<history, ui>>

SpecAnyLength == Init /\ [][NextAnyLength]_vars

====
